---- MODULE Spec2Model ----
(***************************************************************************)
(* The sequence-labelling core of qe/model.py: the linear-chain CRF        *)
(* (gold-path score, forward partition, Viterbi decoding with backpointer  *)
(* walk) and the two QualityEstimator drivers that run it over a padded    *)
(* batch (loss, predict with alignment projection).                        *)
(*                                                                         *)
(* Number representation.  Emission and transition scores are integers.    *)
(* Viterbi and the gold-path score only add and compare them, so they are  *)
(* computed on the integers themselves.  The forward recurrence takes      *)
(* log-sum-exp, which leaves the integers; a log-domain value x met there  *)
(* is held as the natural number 2^x (Exp2), so that adding two log-domain *)
(* values is a product and log-sum-exp is a sum.                           *)
(*                                                                         *)
(* Tensors keep the source's 0-based indices: a tensor of n rows is a      *)
(* function on 0 .. n-1.                                                   *)
(***************************************************************************)
EXTENDS Integers, Sequences, FiniteSets, TLC

\* ------------------------------------------------------------- bounds
MaxLen == 3        \* longest sequence handed to the CRF directly
MaxBatchLen == 2   \* tallest padded batch tensor (rows of mt)
MaxBatch == 2      \* most columns (sentences) in a batch
MaxAlign == 3      \* rows of the alignment tensor per sentence
SrcLen == 2        \* rows of src

\* ------------------------------------------------------------- constants
num_tags == 2
Tags == 0 .. (num_tags - 1)
BAD == 0
OK == 1
IGNORE == -1
PAD_TOKEN == "PAD"
ScoreVals == {0, 1}

\* ------------------------------------------------------------- variables
VARIABLES
  transitions_from_start, transitions, transitions_to_end,   \* CRF parameters
  op, pc, err,                 \* running CRF method, its position, raised error
  seq, tags,                   \* emit_scores of the call's seq; its tags argument
  i, tag_scores_total, parent, \* recurrence locals
  path_score, cur_tag, cur_idx, path,   \* backpointer walk locals
  score, last_read,            \* _log_score accumulator; highest row index read
  ret,                         \* value returned by the CRF method
  top,                         \* position of the caller of the CRF
  mt,                          \* the padded target batch; mt[c][p] is mt[p, c]
  batch_i,                     \* the column loss / predict is at
  word_tags, src_tags,         \* predict's two result tensors, columns first
  aligns_i,                    \* aligns[:, i], the rows the inner loop iterates
  loss,                        \* the accumulator of loss
  out                          \* what loss / predict returned

params == <<transitions_from_start, transitions, transitions_to_end>>
batch == <<mt, batch_i, word_tags, src_tags, aligns_i, loss, out>>
frame == <<op, pc, err, seq, tags, i, tag_scores_total, parent,
           path_score, cur_tag, cur_idx, path, score, last_read, ret>>
vars == <<params, frame, top, batch>>

\* ------------------------------------------------------------- helpers
Rows(t) == Cardinality(DOMAIN t)

SetMax(S) == CHOOSE x \in S : \A y \in S : y <= x

ReverseOmitted(s) == s

Reverse(s) == [k \in 1 .. Len(s) |-> s[Len(s) + 1 - k]]

\* torch.tensor(list): element k of the list becomes row k, counted from 0
ToTensor(s) == [k \in 0 .. (Len(s) - 1) |-> s[k + 1]]

NoValue == [none |-> TRUE]
NoTensor == [k \in {} |-> 0]

RECURSIVE SumOver(_, _)
SumOver(f, S) ==
  IF S = {} THEN 0
  ELSE LET x == CHOOSE y \in S : TRUE IN f[x] + SumOver(f, S \ {x})

\* 2^x: the stored form of the log-domain value x in the forward recurrence.
Exp2(x) == 2 ^ x

\* Indexing a tensor dimension of size n with k: legal for -n <= k < n, and a
\* negative k counts from the end.
PyIndexOk(n, k) == k \in (0 - n) .. (n - 1)
PyIndex(n, k) == IF k < 0 THEN k + n ELSE k

\* ------------------------------------------------------------- log_sum_exp
\* vec holds 2^x for the entries x that are reduced; max_score holds 2^m for
\* m = matrix.max().  exp(x - m) is the fraction vec[j] / max_score, the sum of
\* these fractions has numerator SumOver(vec) over max_score, and adding m back
\* multiplies by max_score.
log_sum_exp_max_only(vec, max_score) == max_score

log_sum_exp(vec, max_score) ==
  (max_score * SumOver(vec, DOMAIN vec)) \div max_score

\* ------------------------------------------------------------- CRF._log_score
\* The gold-path score of tags over the emission rows e, as the code indexes:
\* tags[k] with k >= 0 needs k < len(tags); a tag indexes a dimension of size
\* num_tags, so -num_tags <= tag < num_tags is accepted and a negative tag wraps.
TagOk(t, k) == k < Rows(t) /\ PyIndexOk(num_tags, t[k])
Tag(t, k) == PyIndex(num_tags, t[k])

Raised(e) == [err |-> e, val |-> 0]
Value(v) == [err |-> "none", val |-> v]

RECURSIVE ScoreLoop(_, _, _, _)
\* the for loop from position k on, acc the score so far
ScoreLoop(e, t, k, acc) ==
  IF k >= Rows(e) THEN Value(acc)
  ELSE IF ~TagOk(t, k) THEN Raised("IndexError")
  ELSE ScoreLoop(e, t, k + 1,
                 acc + transitions[Tag(t, k)][Tag(t, k - 1)] + e[k][Tag(t, k)])

log_score(e, t) ==
  IF Rows(t) = 0 \/ ~TagOk(t, 0) \/ Rows(e) = 0 THEN Raised("IndexError")
  ELSE LET first == transitions_from_start[Tag(t, 0)] + e[0][Tag(t, 0)]
           body == ScoreLoop(e, t, 1, first)
           last == Rows(t) - 1          \* tags[-1]
       IN IF body.err # "none" THEN body
          ELSE IF ~TagOk(t, last) THEN Raised("IndexError")
          ELSE Value(body.val + transitions_to_end[Tag(t, last)])

\* ------------------------------------------------------------- CRF._partition
\* one pass of the loop body: transition_scores[k][j] = trans[k][j] + total[j]
ForwardStep(total, emit_row) ==
  LET transition_scores ==
        [k \in Tags |-> [j \in Tags |-> Exp2(transitions[k][j]) * total[j]]]
      max_score ==
        SetMax({transition_scores[k][j] : k \in Tags, j \in Tags})
  IN [k \in Tags |->
        log_sum_exp(transition_scores[k], max_score) * Exp2(emit_row[k])]

RECURSIVE ForwardLoop(_, _, _)
ForwardLoop(e, k, total) ==
  IF k >= Rows(e) THEN total
  ELSE ForwardLoop(e, k + 1, ForwardStep(total, e[k]))

partition_accepting_empty(e) ==
  IF Rows(e) = 0
  THEN Value(SumOver([k \in Tags |->
                Exp2(transitions_from_start[k]) * Exp2(transitions_to_end[k])], Tags))
  ELSE LET first == [k \in Tags |->
                       Exp2(transitions_from_start[k]) * Exp2(e[0][k])]
           total == ForwardLoop(e, 1, first)
       IN Value(SumOver([k \in Tags |-> Exp2(transitions_to_end[k]) * total[k]], Tags))

partition(e) ==
  IF Rows(e) = 0 THEN Raised("IndexError")          \* emit_scores[0]
  ELSE LET first == [k \in Tags |->
                       Exp2(transitions_from_start[k]) * Exp2(e[0][k])]
           total == ForwardLoop(e, 1, first)
           end_transition_scores ==
             [k \in Tags |-> Exp2(transitions_to_end[k]) * total[k]]
       IN Value(log_sum_exp(end_transition_scores,
                            SetMax({end_transition_scores[k] : k \in Tags})))

\* ------------------------------------------------------------- CRF.label
\* torch.max(..., dim) gives the maximum and the index of a maximal entry; with
\* equal entries the index is any of them.
ArgMaxFirstIndex(vec) == {CHOOSE j \in DOMAIN vec : \A k \in DOMAIN vec : j <= k}

ArgMax(vec) == {j \in DOMAIN vec : \A k \in DOMAIN vec : vec[k] <= vec[j]}

ParentFillZero(n) == [p \in 0 .. (n - 1) |-> [k \in Tags |-> 0]]

ParentFill(n) == [p \in 0 .. (n - 1) |-> [k \in Tags |-> -1]]

Raise(e) ==
  /\ pc' = "raised"
  /\ err' = e
  /\ UNCHANGED <<op, seq, tags, i, tag_scores_total, parent, path_score,
                 cur_tag, cur_idx, path, score, last_read, ret>>

\* lines 80-91: the first row and the backpointer table
LabelEntry ==
  /\ op = "label" /\ pc = "entry"
  /\ IF Rows(seq) = 0
     THEN Raise("IndexError")
     ELSE /\ tag_scores_total' =
               [k \in Tags |-> transitions_from_start[k] + seq[0][k]]
          /\ parent' = ParentFill(Rows(seq))
          /\ i' = 1
          /\ last_read' = 0
          /\ pc' = "loop"
          /\ UNCHANGED <<op, err, seq, tags, path_score, cur_tag, cur_idx,
                         path, score, ret>>
  /\ UNCHANGED <<params, top, batch>>

\* lines 93-97: one pass of the recurrence
ViterbiStep ==
  /\ op = "label" /\ pc = "loop" /\ i < Rows(seq)
  /\ LET transition_scores ==
           [k \in Tags |-> [j \in Tags |-> transitions[k][j] + tag_scores_total[j]]]
     IN \E arg \in [Tags -> Tags] :
          /\ \A k \in Tags : arg[k] \in ArgMax(transition_scores[k])
          /\ tag_scores_total' =
               [k \in Tags |-> transition_scores[k][arg[k]] + seq[i][k]]
          /\ parent' = [parent EXCEPT ![i] = arg]
  /\ last_read' = i
  /\ i' = i + 1
  /\ UNCHANGED <<op, pc, err, seq, tags, path_score, cur_tag, cur_idx, path,
                 score, ret>>
  /\ UNCHANGED <<params, top, batch>>

\* lines 99-104: the terminal label and the start of the walk
ViterbiEnd ==
  /\ op = "label" /\ pc = "loop" /\ i >= Rows(seq)
  /\ LET end_transition_scores ==
           [k \in Tags |-> transitions_to_end[k] + tag_scores_total[k]]
     IN \E k \in ArgMax(end_transition_scores) :
          /\ path_score' = end_transition_scores[k]
          /\ cur_tag' = k
  /\ path' = <<>>
  /\ cur_idx' = Rows(seq) - 1
  /\ pc' = "walk"
  /\ UNCHANGED <<op, err, seq, tags, i, tag_scores_total, parent, score,
                 last_read, ret>>
  /\ UNCHANGED <<params, top, batch>>

\* lines 105-111: one pass of the while loop
WalkStep ==
  /\ op = "label" /\ pc = "walk" /\ cur_tag # -1
  /\ IF cur_idx < 0
     THEN Raise("AssertionError")
     ELSE /\ path' = Append(path, cur_tag)
          /\ cur_tag' = parent[cur_idx][cur_tag]
          /\ cur_idx' = cur_idx - 1
          /\ UNCHANGED <<op, pc, err, seq, tags, i, tag_scores_total, parent,
                         path_score, score, last_read, ret>>
  /\ UNCHANGED <<params, top, batch>>

\* lines 113-117: the length check, the reversal and the return
WalkEnd ==
  /\ op = "label" /\ pc = "walk" /\ cur_tag = -1
  /\ IF Len(path) # Rows(seq)
     THEN Raise("AssertionError")
     ELSE /\ ret' = [path |-> ToTensor(Reverse(path)), score |-> path_score]
          /\ pc' = "returned"
          /\ UNCHANGED <<op, err, seq, tags, i, tag_scores_total, parent,
                         path_score, cur_tag, cur_idx, path, score, last_read>>
  /\ UNCHANGED <<params, top, batch>>

label == LabelEntry \/ ViterbiStep \/ ViterbiEnd \/ WalkStep \/ WalkEnd

\* ------------------------------------------------------------- _partition, log_likelihood
\* A real number int + log2(num / den).  An integer score s is [s, 1, 1], the
\* log-partition held as z is [0, z, 1]; their difference is no integer, so the
\* three parts are kept.
Real(a, n, d) == [int |-> a, num |-> n, den |-> d]
Minus(x, y) == Real(x.int - y.int, x.num * y.den, x.den * y.num)
LogLik(s, z) == Minus(Real(s, 1, 1), Real(0, z, 1))

\* _partition called on seq
PartitionRun ==
  /\ op = "_partition" /\ pc = "entry"
  /\ LET z == partition(seq)
     IN IF z.err # "none"
        THEN Raise(z.err)
        ELSE /\ ret' = [value |-> z.val]
             /\ last_read' = Rows(seq) - 1
             /\ pc' = "returned"
             /\ UNCHANGED <<op, err, seq, tags, i, tag_scores_total, parent,
                            path_score, cur_tag, cur_idx, path, score>>
  /\ UNCHANGED <<params, top, batch>>

\* line 124, left operand: self._log_score(seq, tags)
LogLikelihoodScore ==
  /\ op = "log_likelihood" /\ pc = "entry"
  /\ LET s == log_score(seq, tags)
     IN IF s.err # "none"
        THEN Raise(s.err)
        ELSE /\ score' = s.val
             /\ last_read' = SetMax({Rows(seq) - 1, Rows(tags) - 1})
             /\ pc' = "scored"
             /\ UNCHANGED <<op, err, seq, tags, i, tag_scores_total, parent,
                            path_score, cur_tag, cur_idx, path, ret>>
  /\ UNCHANGED <<params, top, batch>>

\* line 124, right operand and the difference
LogLikelihoodPartition ==
  /\ op = "log_likelihood" /\ pc = "scored"
  /\ LET z == partition(seq)
     IN IF z.err # "none"
        THEN Raise(z.err)
        ELSE /\ ret' = LogLik(score, z.val)
             /\ pc' = "returned"
             /\ UNCHANGED <<op, err, seq, tags, i, tag_scores_total, parent,
                            path_score, cur_tag, cur_idx, path, score, last_read>>
  /\ UNCHANGED <<params, top, batch>>

log_likelihood == LogLikelihoodScore \/ LogLikelihoodPartition

\* ------------------------------------------------------------- callers of the CRF
Emissions(n) == [0 .. (n - 1) -> [Tags -> ScoreVals]]

\* what a caller can pass as a tag: the labels, and a value on either side of them
TagInputs == -1 .. num_tags

Enter(method, e, t) ==
  /\ op' = method
  /\ pc' = "entry"
  /\ seq' = e
  /\ tags' = t
  /\ err' = "none"
  /\ i' = 0
  /\ tag_scores_total' = NoTensor
  /\ parent' = NoTensor
  /\ path_score' = 0
  /\ cur_tag' = -1
  /\ cur_idx' = -1
  /\ path' = <<>>
  /\ score' = 0
  /\ last_read' = -1
  /\ ret' = NoValue

\* the callee's frame is gone once its result has been taken
Leave ==
  /\ op' = "none"
  /\ pc' = "idle"
  /\ seq' = NoTensor
  /\ tags' = NoTensor
  /\ err' = "none"
  /\ i' = 0
  /\ tag_scores_total' = NoTensor
  /\ parent' = NoTensor
  /\ path_score' = 0
  /\ cur_tag' = -1
  /\ cur_idx' = -1
  /\ path' = <<>>
  /\ score' = 0
  /\ last_read' = -1
  /\ ret' = NoValue

CallLabel ==
  /\ top = "idle"
  /\ \E n \in 0 .. MaxLen : \E e \in Emissions(n) : Enter("label", e, NoTensor)
  /\ top' = "direct"
  /\ UNCHANGED <<params, batch>>

CallPartition ==
  /\ top = "idle"
  /\ \E n \in 0 .. MaxLen : \E e \in Emissions(n) : Enter("_partition", e, NoTensor)
  /\ top' = "direct"
  /\ UNCHANGED <<params, batch>>

\* log_likelihood called with any tags tensor: shorter or longer than seq,
\* labels or not
CallLogLikelihood ==
  /\ top = "idle"
  /\ \E n \in 0 .. (MaxLen - 1), m \in 0 .. MaxLen :
       \E e \in Emissions(n), t \in [0 .. (m - 1) -> TagInputs] :
         Enter("log_likelihood", e, t)
  /\ top' = "direct"
  /\ UNCHANGED <<params, batch>>

BatchInit ==
  /\ mt = NoTensor /\ batch_i = 0
  /\ word_tags = NoTensor /\ src_tags = NoTensor /\ aligns_i = NoTensor
  /\ loss = Real(0, 1, 1) /\ out = NoValue

FrameInit ==
  /\ op = "none" /\ pc = "idle" /\ err = "none"
  /\ seq = NoTensor /\ tags = NoTensor
  /\ i = 0 /\ tag_scores_total = NoTensor /\ parent = NoTensor
  /\ path_score = 0 /\ cur_tag = -1 /\ cur_idx = -1 /\ path = <<>>
  /\ score = 0 /\ last_read = -1 /\ ret = NoValue

\* CRF.__init__: the parameters are drawn at random
InitCRF ==
  /\ transitions_from_start \in [Tags -> ScoreVals]
  /\ transitions \in [Tags -> [Tags -> ScoreVals]]
  /\ transitions_to_end \in [Tags -> ScoreVals]
  /\ FrameInit
  /\ BatchInit
  /\ top = "idle"

NextCRF == CallLabel \/ CallPartition \/ label \/ PartitionRun

SpecCRF == InitCRF /\ [][NextCRF]_vars

\* label is straight-line code in one thread: a step that can be taken is taken
SpecCRFLive == SpecCRF /\ WF_vars(label)

\* ------------------------------------------------------------- padded batches
\* qe_collate / pad_sequence: every column is its sentence followed by pad
\* markers, up to the longest sentence of the batch.
Collate(lens) ==
  LET height == SetMax({lens[c] : c \in DOMAIN lens})
  IN [c \in DOMAIN lens |->
        [p \in 0 .. (height - 1) |-> IF p < lens[c] THEN "tok" ELSE PAD_TOKEN]]

BatchLens ==
  UNION {{lens \in [0 .. (b - 1) -> 0 .. MaxBatchLen] : \E c \in 0 .. (b - 1) : lens[c] >= 1}
         : b \in 1 .. MaxBatch}

MtLenWholeColumn(column) == Rows(column)

\* (mt[:, i] != PAD_TOKEN).sum()
MtLen(column) == Cardinality({p \in DOMAIN column : column[p] # PAD_TOKEN})

\* torch.ones_like of a tensor of `rows` rows with the columns of m
Ones(m, rows) == [c \in DOMAIN m |-> [p \in 0 .. (rows - 1) |-> 1]]

Height(m) == Rows(m[0])

\* word_tags[:n, i] = labels
StorePath(column, labels, n) ==
  [p \in DOMAIN column |-> IF p < n THEN labels[p] ELSE column[p]]

\* the rows of an alignment tensor: <<j_src, j_mt>>, j_mt = -1 the end marker
AlignRows(height) == (0 .. (SrcLen - 1)) \X (-1 .. (height - 1))

ScanIgnoringBreak(a, k, wt, st) ==
  [s \in DOMAIN st |->
     IF \E r \in DOMAIN a : a[r][1] = s /\ a[r][2] # -1 /\ wt[a[r][2]] = 0
     THEN 0 ELSE st[s]]

RECURSIVE Scan(_, _, _, _)
\* lines 359-363 from row k on: wt is word_tags[:, i], st is src_tags[:, i]
Scan(a, k, wt, st) ==
  IF k >= Rows(a) THEN st
  ELSE IF a[k][2] = -1 THEN st
  ELSE Scan(a, k + 1, wt,
            IF wt[a[k][2]] = 0 THEN [st EXCEPT ![a[k][1]] = 0] ELSE st)

PadRemarkOmitted(wt, m) == wt

\* word_tags[mt == PAD_TOKEN] = -1
PadRemark(wt, m) ==
  [c \in DOMAIN wt |->
     [p \in DOMAIN wt[c] |-> IF m[c][p] = PAD_TOKEN THEN -1 ELSE wt[c][p]]]

MeanOverTokens(total, m) ==
  [total |-> total, div |-> SumOver([c \in DOMAIN m |-> MtLen(m[c])], DOMAIN m)]

\* loss / batch_len: the total and the divisor are kept apart
MeanOver(total, m) == [total |-> total, div |-> Rows(m)]

\* ------------------------------------------------------------- QualityEstimator.predict
\* lines 350-355
PredictStart ==
  /\ top = "idle"
  /\ \E lens \in BatchLens :
       LET m == Collate(lens)
       IN /\ mt' = m
          /\ word_tags' = Ones(m, Height(m))
          /\ src_tags' = Ones(m, SrcLen)
  /\ batch_i' = 0
  /\ top' = "predict_loop"
  /\ UNCHANGED <<params, frame, aligns_i, loss, out>>

\* lines 357-358: the call of label on features[:mt_len, i]; the emission rows
\* of the slice are whatever the feature extractor and the projection give
PredictColumn ==
  /\ top = "predict_loop" /\ batch_i < Rows(mt)
  /\ \E e \in Emissions(MtLen(mt[batch_i])) : Enter("label", e, NoTensor)
  /\ aligns_i' = NoTensor
  /\ top' = "predict_label"
  /\ UNCHANGED <<params, mt, batch_i, word_tags, src_tags, loss, out>>

\* lines 358-363: the labels are stored, then the alignment rows are scanned
PredictProject ==
  /\ top = "predict_label" /\ op = "label" /\ pc = "returned"
  /\ \E a \in [0 .. (MaxAlign - 1) -> AlignRows(Height(mt))] :
       LET column == StorePath(word_tags[batch_i], ret.path, MtLen(mt[batch_i]))
       IN /\ aligns_i' = a
          /\ word_tags' = [word_tags EXCEPT ![batch_i] = column]
          /\ src_tags' = [src_tags EXCEPT
                            ![batch_i] = Scan(a, 0, column, src_tags[batch_i])]
  /\ Leave
  /\ batch_i' = batch_i + 1
  /\ top' = "predict_loop"
  /\ UNCHANGED <<params, mt, loss, out>>

\* lines 365-367
PredictReturn ==
  /\ top = "predict_loop" /\ batch_i >= Rows(mt)
  /\ out' = [src_tags |-> src_tags, word_tags |-> PadRemark(word_tags, mt)]
  /\ aligns_i' = NoTensor
  /\ top' = "done"
  /\ UNCHANGED <<params, frame, mt, batch_i, word_tags, src_tags, loss>>

predict == PredictStart \/ PredictColumn \/ PredictProject \/ PredictReturn

\* ------------------------------------------------------------- QualityEstimator.loss
\* lines 335-339
LossStart ==
  /\ top = "idle"
  /\ \E lens \in BatchLens : mt' = Collate(lens)
  /\ loss' = Real(0, 1, 1)
  /\ batch_i' = 0
  /\ top' = "loss_loop"
  /\ UNCHANGED <<params, frame, word_tags, src_tags, aligns_i, out>>

\* lines 341-345: the call of log_likelihood on features[:mt_len, i] and
\* word_tags[:mt_len, i]; the gold tags of a sentence are labels
LossColumn ==
  /\ top = "loss_loop" /\ batch_i < Rows(mt)
  /\ LET mt_len == MtLen(mt[batch_i])
     IN \E e \in Emissions(mt_len), t \in [0 .. (mt_len - 1) -> Tags] :
          Enter("log_likelihood", e, t)
  /\ top' = "loss_ll"
  /\ UNCHANGED <<params, batch>>

\* line 342: loss -= the returned log-likelihood
LossAccumulate ==
  /\ top = "loss_ll" /\ op = "log_likelihood" /\ pc = "returned"
  /\ loss' = Minus(loss, ret)
  /\ Leave
  /\ batch_i' = batch_i + 1
  /\ top' = "loss_loop"
  /\ UNCHANGED <<params, mt, word_tags, src_tags, aligns_i, out>>

\* line 346
LossReturn ==
  /\ top = "loss_loop" /\ batch_i >= Rows(mt)
  /\ out' = MeanOver(loss, mt)
  /\ top' = "done"
  /\ UNCHANGED <<params, frame, mt, batch_i, word_tags, src_tags, aligns_i, loss>>

loss_method == LossStart \/ LossColumn \/ LossAccumulate \/ LossReturn

\* ------------------------------------------------------------- the estimator
\* QualityEstimator.__init__ builds CRF(features_size, 2); the start and end
\* scores are held at 0 here, the transition scores are any
Init ==
  /\ transitions_from_start = [k \in Tags |-> 0]
  /\ transitions \in [Tags -> [Tags -> ScoreVals]]
  /\ transitions_to_end = [k \in Tags |-> 0]
  /\ FrameInit
  /\ BatchInit
  /\ top = "idle"

Next ==
  \/ CallLabel \/ CallPartition \/ CallLogLikelihood
  \/ label \/ PartitionRun \/ log_likelihood
  \/ predict \/ loss_method

Spec == Init /\ [][Next]_vars

\* ============================================================= claims
Paths(n) == [0 .. (n - 1) -> Tags]

\* the gold-path scores of all label sequences over the emission rows e
PathScores(e) == {log_score(e, p).val : p \in Paths(Rows(e))}

\* the sum over all label sequences of 2^(path score)
BruteForcePartition(e) ==
  SumOver([p \in Paths(Rows(e)) |-> Exp2(log_score(e, p).val)], Paths(Rows(e)))

LabelReturned == op = "label" /\ pc = "returned"

\* C1: the score CRF.label returns is the maximum of the gold-path score over
\* all num_tags^L label sequences, so it is at least the score of any gold path.
C1_ViterbiScoreIsMax ==
  LabelReturned =>
    /\ ret.score = SetMax(PathScores(seq))
    /\ \A p \in Paths(Rows(seq)) : log_score(seq, p).val <= ret.score

C1_Witness ==
  /\ LabelReturned
  /\ Rows(seq) = 3
  /\ \E p, q \in Paths(3) :
       /\ log_score(seq, p).val < log_score(seq, q).val
       /\ log_score(seq, q).val < ret.score

\* C3: the forward recurrence of CRF._partition gives the sum, over all
\* num_tags^L label sequences, of the exponentiated path score.
C3_PartitionIsPathSum ==
  (op = "_partition" /\ pc = "returned") =>
    ret.value = BruteForcePartition(seq)

C3_Witness ==
  /\ op = "_partition" /\ pc = "returned"
  /\ Rows(seq) = 3
  /\ transitions[0][1] # transitions[1][0]
  /\ \E p, q \in Paths(3) : log_score(seq, p).val # log_score(seq, q).val

C9_WalkInvariant ==
  /\ op = "label" => err # "AssertionError"
  /\ (op = "label" /\ pc = "walk") =>
       /\ cur_idx \in -1 .. (Rows(seq) - 1)
       /\ Len(path) = Rows(seq) - 1 - cur_idx
       /\ (cur_tag = -1) <=> (cur_idx = -1)
       /\ cur_tag \in Tags \cup {-1}
       /\ \A k \in 1 .. Len(path) : path[k] \in Tags
  /\ LabelReturned =>
       /\ Rows(ret.path) = Rows(seq)
       /\ Rows(seq) >= 1
       /\ \A k \in DOMAIN ret.path : ret.path[k] \in Tags

\* C9: the backpointer walk starts at row L-1, meets the -1 sentinel exactly
\* after row 0, collects L labels each in [0, num_tags), neither sanity
\* assertion fails, and every walk that is begun ends with label returning.
C9_WalkIsExact ==
  /\ []C9_WalkInvariant
  /\ (op = "label" /\ pc = "walk") ~> (op = "label" /\ pc = "returned")

C9_Witness ==
  /\ op = "label" /\ pc = "walk"
  /\ cur_tag = -1
  /\ Len(path) = 3
  /\ \E k \in Tags : Cardinality({transitions[k][j] + seq[0][j] + transitions_from_start[j] : j \in Tags}) = 1

\* C10: the labels CRF.label returns, in row order 0 .. L-1, score exactly the
\* returned path score under CRF._log_score.
C10_PathAttainsScore ==
  LabelReturned =>
    /\ Rows(ret.path) = Rows(seq)
    /\ log_score(seq, ret.path) = Value(ret.score)

C10_Witness ==
  /\ LabelReturned
  /\ Rows(seq) = 3
  /\ ret.path[0] # ret.path[2]
  /\ \E p \in Paths(3) : log_score(seq, p).val < ret.score

\* ------------------------------------------------------------- batch claims
\* the number of non-pad tokens of a target column
TrueLength(column) == Cardinality({p \in DOMAIN column : column[p] # PAD_TOKEN})

PredictDone == top = "done" /\ word_tags # NoTensor
LossDone == top = "done" /\ word_tags = NoTensor
InBatchCall == top \in {"predict_label", "loss_ll"}

\* the first row of an alignment tensor whose target index is -1, else its height
FirstSentinel(a) ==
  IF \E k \in DOMAIN a : a[k][2] = -1
  THEN CHOOSE k \in DOMAIN a :
         a[k][2] = -1 /\ \A r \in DOMAIN a : a[r][2] = -1 => k <= r
  ELSE Rows(a)

\* source index s is paired, before the sentinel, with a target labelled BAD
BadAligned(a, wt, s) ==
  \E k \in 0 .. (FirstSentinel(a) - 1) : a[k][1] = s /\ wt[a[k][2]] = BAD

C2_ColumnProjected ==
  (top = "predict_loop" /\ aligns_i # NoTensor) =>
    \A s \in 0 .. (SrcLen - 1) :
      src_tags[batch_i - 1][s] =
        IF BadAligned(aligns_i, word_tags[batch_i - 1], s) THEN BAD ELSE OK

C2_ColumnsKept ==
  \A c \in DOMAIN src_tags : c < batch_i => src_tags'[c] = src_tags[c]

C2_Returned == PredictDone => out.src_tags = src_tags

\* C2: after the alignment scan of a sentence, source index s is BAD exactly
\* when a pair (s, t) before the first -1 target index has decoded label BAD at
\* t, and OK otherwise (so rows at or after the sentinel, and the order of the
\* rows before it, do not matter); no later step changes the labels of a
\* finished sentence, and predict returns them.
C2_SourceLabelIffBadAligned ==
  /\ []C2_ColumnProjected
  /\ [][C2_ColumnsKept]_vars
  /\ []C2_Returned

C2_Witness ==
  /\ top = "predict_loop" /\ aligns_i # NoTensor
  /\ \E t0, t1 \in DOMAIN word_tags[batch_i - 1] :
       /\ t0 # t1
       /\ word_tags[batch_i - 1][t0] = BAD
       /\ word_tags[batch_i - 1][t1] = BAD
       /\ aligns_i = [k \in 0 .. 2 |->
                        IF k = 0 THEN <<0, t1>> ELSE IF k = 1 THEN <<1, -1>> ELSE <<1, t0>>]
  /\ src_tags[batch_i - 1] = [s \in 0 .. (SrcLen - 1) |-> IF s = 0 THEN BAD ELSE OK]

\* C4: in what predict returns, a target position at or beyond the true length
\* of its sentence carries the ignore mark -1, and a position below it carries
\* the label decoded for it, BAD or OK.
C4_PadPositionsIgnored ==
  PredictDone =>
    \A c \in DOMAIN mt : \A p \in DOMAIN mt[c] :
      IF p >= TrueLength(mt[c])
      THEN out.word_tags[c][p] = IGNORE
      ELSE out.word_tags[c][p] \in {BAD, OK} /\ out.word_tags[c][p] = word_tags[c][p]

C4_Witness ==
  /\ PredictDone
  /\ Rows(mt) = 2
  /\ TrueLength(mt[0]) = 1 /\ TrueLength(mt[1]) = 2
  /\ out.word_tags[0] = [p \in 0 .. 1 |-> IF p = 0 THEN BAD ELSE IGNORE]
  /\ out.word_tags[1] = [p \in 0 .. 1 |-> IF p = 0 THEN OK ELSE BAD]

\* the log-likelihood by enumeration: the gold-path score minus the log of the
\* sum over all label sequences
BruteForceLogLik(e, t) == LogLik(log_score(e, t).val, BruteForcePartition(e))

C5_StartsAtZero == (top = "loss_loop" /\ batch_i = 0) => loss = Real(0, 1, 1)

C5_AddsColumn ==
  (top = "loss_ll" /\ top' = "loss_loop") =>
    /\ Rows(seq) = TrueLength(mt[batch_i])
    /\ Rows(tags) = TrueLength(mt[batch_i])
    /\ loss' = Minus(loss, BruteForceLogLik(seq, tags))
    /\ batch_i' = batch_i + 1

C5_Returned ==
  LossDone => batch_i = Rows(mt) /\ out = [total |-> loss, div |-> Rows(mt)]

\* C5: loss starts at 0, takes for every sentence in turn the negative
\* log-likelihood of its emissions and tags cut to its true length, and returns
\* the total divided by the number of sentences, not of tokens.
C5_LossIsMeanOverSentences ==
  /\ []C5_StartsAtZero
  /\ [][C5_AddsColumn]_vars
  /\ []C5_Returned

\* two sentences of true lengths 1 and 2, every score 0: each token costs
\* c = log 2, and the result is (1c + 2c) / 2
C5_Witness ==
  /\ LossDone
  /\ Rows(mt) = 2
  /\ TrueLength(mt[0]) = 1 /\ TrueLength(mt[1]) = 2
  /\ out = [total |-> Real(0, 8, 1), div |-> 2]

\* C6: while loss or predict has the CRF run on sentence i, every row whose
\* emission scores, tag or backpointers are read lies below the true length of
\* the sentence and holds no pad marker.
C6_NoPadRowRead ==
  InBatchCall =>
    /\ last_read < TrueLength(mt[batch_i])
    /\ \A p \in 0 .. last_read : mt[batch_i][p] # PAD_TOKEN
    /\ pc = "walk" => cur_idx < TrueLength(mt[batch_i])
    /\ pc = "loop" => i <= TrueLength(mt[batch_i])

C6_Witness ==
  /\ top = "predict_label" /\ pc = "returned"
  /\ batch_i = 1
  /\ TrueLength(mt[batch_i]) = 1
  /\ Height(mt) = 2
  /\ last_read = 0

WellFormed(e, t) == Rows(t) = Rows(e) /\ \A k \in DOMAIN t : t[k] \in Tags

\* C7: gold-path scoring gives a score only for tags of the length of the
\* emission sequence whose every entry is a label in [0, num_tags).
C7_GoldScoringRejectsMalformed ==
  (op = "log_likelihood" /\ pc \in {"scored", "returned"}) => WellFormed(seq, tags)

\* C8: no CRF method gives a result for a sequence of length 0: the call ends
\* in an error, and so does the loss or predict call that meets a column of
\* true length 0.
C8_EmptySequenceRejected ==
  /\ (op \in {"label", "_partition", "log_likelihood"} /\ Rows(seq) = 0 /\ pc # "entry") =>
       pc = "raised" /\ err # "none" /\ ret = NoValue
  /\ (InBatchCall /\ TrueLength(mt[batch_i]) = 0 /\ pc # "entry") =>
       pc = "raised" /\ err # "none"
  /\ top = "done" => \A c \in DOMAIN mt : TrueLength(mt[c]) >= 1

C8_Witness ==
  /\ top = "loss_ll" /\ batch_i = 1
  /\ TrueLength(mt[1]) = 0
  /\ pc = "raised" /\ err = "IndexError"

====
